---- MODULE Spec2Model ----
(***************************************************************************)
(* Model of csv-sniffer's metadata types (src/src/metadata.rs): Dialect,   *)
(* Header, Quote, Escape, Comment, Metadata; the conversion of a Dialect   *)
(* into a csv ReaderBuilder; Dialect::open_reader / Dialect::open_path;    *)
(* Dialect equality; and the Display implementations.                      *)
(***************************************************************************)
EXTENDS Integers, Sequences, FiniteSets, TLC

VARIABLES
    dialect,    \* the Dialect value the caller holds (the `self` of the calls)
    last,       \* record of the most recent open_reader / open_path / into call
    prev,       \* record of the call before `last`
    eqCall,     \* record of the most recent Dialect == Dialect comparison
    metadata,   \* the Metadata value the caller holds
    output      \* lines written by the most recent Display of `metadata`

vars == <<dialect, last, prev, eqCall, metadata, output>>

----------------------------------------------------------------------------
\* Bounds of the model.

\* largest header.num_preamble_rows enumerated
MaxPreamble == 1
\* largest number of lines in a stream / file
MaxLines == 2
\* largest length of Metadata.fields and Metadata.types, and largest num_fields
MaxCols == 2

Min(a, b) == IF a < b THEN a ELSE b
Max(a, b) == IF a < b THEN b ELSE a

----------------------------------------------------------------------------
\* Data model.

\* u8 values enumerated for Dialect.delimiter: b',' and b';'
Delimiters == {44, 59}
\* u8 values enumerated for Quote::Some: b'"' and b'\''
QuoteChars == {34, 39}

\* enum Quote { None, Some(u8) }
QuoteNone == [tag |-> "None"]
QuoteSome(c) == [tag |-> "Some", character |-> c]
Quotes == {QuoteNone} \cup {QuoteSome(c) : c \in QuoteChars}

\* struct Header { has_header_row: bool, num_preamble_rows: usize }
Headers == [has_header_row : BOOLEAN, num_preamble_rows : 0..MaxPreamble]

\* struct Dialect { delimiter, header, quote, flexible, is_utf8 }
Dialects ==
    [delimiter : Delimiters, header : Headers, quote : Quotes,
     flexible : BOOLEAN, is_utf8 : BOOLEAN]

\* Option<u8>
OptNone == [tag |-> "None"]
OptSome(b) == [tag |-> "Some", value |-> b]

\* enum Escape { Enabled(u8), Disabled } and its conversion into Option<u8>
EscapeEnabled(c) == [tag |-> "Enabled", character |-> c]
EscapeDisabled == [tag |-> "Disabled"]
EscapeIntoOption(escape) ==
    IF escape.tag = "Enabled" THEN OptSome(escape.character) ELSE OptNone

\* enum Comment { Enabled(u8), Disabled } and its conversion into Option<u8>
CommentEnabled(c) == [tag |-> "Enabled", character |-> c]
CommentDisabled == [tag |-> "Disabled"]
CommentIntoOption(comment) ==
    IF comment.tag = "Enabled" THEN OptSome(comment.character) ELSE OptNone

----------------------------------------------------------------------------
\* Dialect -> ReaderBuilder.

\* ReaderBuilder::new(): the csv crate's default configuration.
ReaderBuilderNew ==
    [delimiter |-> 44, has_headers |-> TRUE, flexible |-> FALSE,
     quoting |-> TRUE, quote |-> 34, double_quote |-> TRUE,
     escape |-> OptNone, comment |-> OptNone]

\* Faulty variant: the flexible flag is not forwarded.
FromDialect_DropFlexible(d) ==
    LET bldr == [ReaderBuilderNew EXCEPT !.delimiter = d.delimiter,
                                         !.has_headers = d.header.has_header_row]
    IN  IF d.quote.tag = "Some"
        THEN [bldr EXCEPT !.quoting = TRUE, !.quote = d.quote.character]
        ELSE [bldr EXCEPT !.quoting = FALSE]

\* Faulty variant: a dialect that is not UTF-8 is read with flexible field counts.
FromDialect_Utf8Dependent(d) ==
    LET bldr == [ReaderBuilderNew EXCEPT !.delimiter = d.delimiter,
                                         !.has_headers = d.header.has_header_row,
                                         !.flexible = d.flexible \/ ~d.is_utf8]
    IN  IF d.quote.tag = "Some"
        THEN [bldr EXCEPT !.quoting = TRUE, !.quote = d.quote.character]
        ELSE [bldr EXCEPT !.quoting = FALSE]

\* impl From<Dialect> for ReaderBuilder
FromDialect(d) ==
    LET bldr == [ReaderBuilderNew EXCEPT !.delimiter = d.delimiter,
                                         !.has_headers = d.header.has_header_row,
                                         !.flexible = d.flexible]
    IN  IF d.quote.tag = "Some"
        THEN [bldr EXCEPT !.quoting = TRUE, !.quote = d.quote.character]
        ELSE [bldr EXCEPT !.quoting = FALSE]

\* #[derive(Clone)] on Dialect: a field-by-field copy.
DialectClone(d) ==
    [delimiter |-> d.delimiter,
     header |-> [has_header_row |-> d.header.has_header_row,
                 num_preamble_rows |-> d.header.num_preamble_rows],
     quote |-> d.quote, flexible |-> d.flexible, is_utf8 |-> d.is_utf8]

----------------------------------------------------------------------------
\* Streams, files and the calls open_reader makes.

\* A Read + Seek stream: its number of lines and the number of lines consumed.
Streams == [nlines : 0..MaxLines, pos : {0}]

\* A path either names no openable file or names a file with some lines.
NoFile == [exists |-> FALSE]
Paths == {NoFile} \cup {[exists |-> TRUE, nlines |-> n] : n \in 0..MaxLines}

\* snip::snip_preamble(&mut rdr, n): leaves the stream past its first n lines
\* (all of them when it has fewer); fails when reading the stream fails.
SnipPreamble(rdr, n, ioOk) ==
    IF ioOk
    THEN [kind |-> "Ok", rdr |-> [rdr EXCEPT !.pos = Min(n, rdr.nlines)]]
    ELSE [kind |-> "Err", error |-> "Io"]

\* ReaderBuilder::from_reader(rdr): a Reader with this configuration over rdr
\* as it stands.
FromReader(bldr, rdr) == [builder |-> bldr, rdr |-> rdr]

\* File::open(path)
FileOpen(path) ==
    IF path.exists
    THEN [kind |-> "Ok", file |-> [nlines |-> path.nlines, pos |-> 0]]
    ELSE [kind |-> "Err", error |-> "Open"]

Event(call, arg) == [call |-> call, arg |-> arg]

\* Faulty variant: the preamble is skipped only when the dialect has a header row.
OpenReaderImpl_SkipOnlyWithHeader(self, rdr, ioOk) ==
    LET n    == IF self.header.has_header_row
                THEN self.header.num_preamble_rows ELSE 0
        snip == SnipPreamble(rdr, n, ioOk)
    IN  IF snip.kind = "Err"
        THEN [self |-> self,
              trace |-> <<Event("snip_preamble", n)>>,
              result |-> [kind |-> "Err", error |-> snip.error]]
        ELSE LET bldr == FromDialect(DialectClone(self))
             IN  [self |-> self,
                  trace |-> <<Event("snip_preamble", n),
                              Event("into", bldr),
                              Event("from_reader", snip.rdr.pos)>>,
                  result |-> [kind |-> "Ok", reader |-> FromReader(bldr, snip.rdr)]]

\* Faulty variant: a failed preamble skip is ignored and a Reader is built anyway.
OpenReaderImpl_IgnoreSnipError(self, rdr, ioOk) ==
    LET n    == self.header.num_preamble_rows
        snip == SnipPreamble(rdr, n, ioOk)
        at   == IF snip.kind = "Ok" THEN snip.rdr ELSE rdr
        bldr == FromDialect(DialectClone(self))
    IN  [self |-> self,
         trace |-> <<Event("snip_preamble", n),
                     Event("into", bldr),
                     Event("from_reader", at.pos)>>,
         result |-> [kind |-> "Ok", reader |-> FromReader(bldr, at)]]

\* Dialect::open_reader(&self, rdr): the calls it makes, in order, the value
\* of self when it returns, and its result.
OpenReaderImpl(self, rdr, ioOk) ==
    LET n    == self.header.num_preamble_rows
        snip == SnipPreamble(rdr, n, ioOk)
    IN  IF snip.kind = "Err"
        THEN [self |-> self,
              trace |-> <<Event("snip_preamble", n)>>,
              result |-> [kind |-> "Err", error |-> snip.error]]
        ELSE LET bldr == FromDialect(DialectClone(self))
             IN  [self |-> self,
                  trace |-> <<Event("snip_preamble", n),
                              Event("into", bldr),
                              Event("from_reader", snip.rdr.pos)>>,
                  result |-> [kind |-> "Ok", reader |-> FromReader(bldr, snip.rdr)]]

\* Faulty variant: the file is opened but the preamble of a fresh, empty stream is
\* skipped instead of the file's.
OpenPathImpl_WrongStream(self, path, ioOk) ==
    LET f == FileOpen(path)
    IN  IF f.kind = "Err"
        THEN [self |-> self,
              trace |-> <<Event("File::open", path)>>,
              result |-> [kind |-> "Err", error |-> f.error]]
        ELSE LET r == OpenReaderImpl(self, [nlines |-> 0, pos |-> 0], ioOk)
             IN  [r EXCEPT !.trace = <<Event("File::open", path)>> \o r.trace]

\* Dialect::open_path(&self, path)
OpenPathImpl(self, path, ioOk) ==
    LET f == FileOpen(path)
    IN  IF f.kind = "Err"
        THEN [self |-> self,
              trace |-> <<Event("File::open", path)>>,
              result |-> [kind |-> "Err", error |-> f.error]]
        ELSE LET r == OpenReaderImpl(self, f.file, ioOk)
             IN  [r EXCEPT !.trace = <<Event("File::open", path)>> \o r.trace]

NoCall == [op |-> "none"]

CallRecord(op, self, input, ioOk, r) ==
    [op |-> op, self |-> self, input |-> input, ioOk |-> ioOk,
     selfAfter |-> r.self, trace |-> r.trace, result |-> r.result]

----------------------------------------------------------------------------
\* Actions of the reader specification.

\* dialect.open_reader(rdr)
OpenReader(rdr, ioOk) ==
    LET r == OpenReaderImpl(dialect, rdr, ioOk)
    IN  /\ last' = CallRecord("open_reader", dialect, rdr, ioOk, r)
        /\ prev' = last
        /\ dialect' = r.self
        /\ UNCHANGED <<eqCall, metadata, output>>

\* dialect.open_path(path)
OpenPath(path, ioOk) ==
    LET r == OpenPathImpl(dialect, path, ioOk)
    IN  /\ last' = CallRecord("open_path", dialect, path, ioOk, r)
        /\ prev' = last
        /\ dialect' = r.self
        /\ UNCHANGED <<eqCall, metadata, output>>

\* let bldr: ReaderBuilder = dialect.clone().into()
Into ==
    LET bldr == FromDialect(DialectClone(dialect))
    IN  /\ last' = [op |-> "into", self |-> dialect, input |-> "none",
                    ioOk |-> TRUE, selfAfter |-> dialect,
                    trace |-> <<Event("into", bldr)>>,
                    result |-> [kind |-> "Builder", builder |-> bldr]]
        /\ prev' = last
        /\ UNCHANGED <<dialect, eqCall, metadata, output>>

NoEq == [op |-> "none"]
NoOutput == [kind |-> "none"]
NoMetadata == [op |-> "none"]

Init ==
    /\ dialect \in Dialects
    /\ last = NoCall
    /\ prev = NoCall
    /\ eqCall = NoEq
    /\ metadata = NoMetadata
    /\ output = NoOutput

Next ==
    \/ \E rdr \in Streams, ioOk \in BOOLEAN : OpenReader(rdr, ioOk)
    \/ \E path \in Paths, ioOk \in BOOLEAN : OpenPath(path, ioOk)
    \/ Into

Spec == Init /\ [][Next]_vars

----------------------------------------------------------------------------
\* Properties of the reader specification.

Calls == {c \in {last, prev} : c.op # "none"}
OpenReaderCalls == {c \in Calls : c.op = "open_reader"}
OpenPathCalls == {c \in Calls : c.op = "open_path"}
\* the calls that produced a tokenizer configuration
CfgCalls == {c \in Calls : c.result.kind \in {"Ok", "Builder"}}
CfgOf(c) == IF c.result.kind = "Builder" THEN c.result.builder
            ELSE c.result.reader.builder
CallNames(trace) == [i \in 1..Len(trace) |-> trace[i].call]
Made(trace, call) == \E i \in 1..Len(trace) : trace[i].call = call

\* C1: every open_reader call first skips the preamble, with the count
\* header.num_preamble_rows, whatever header.has_header_row is; the
\* configuration and the Reader are built only after it, over the stream as
\* the skip left it (past num_preamble_rows lines).
C1_PreambleSkippedBeforeReader ==
    \A c \in OpenReaderCalls :
        LET n == c.self.header.num_preamble_rows
        IN  /\ Len(c.trace) >= 1
            /\ c.trace[1] = Event("snip_preamble", n)
            /\ c.result.kind = "Ok" =>
                  /\ CallNames(c.trace) = <<"snip_preamble", "into", "from_reader">>
                  /\ c.trace[3].arg = Min(n, c.input.nlines)
                  /\ c.result.reader.rdr.pos = Min(n, c.input.nlines)
                  /\ (c.input.nlines >= n => c.result.reader.rdr.pos = n)

C1_Witness ==
    /\ last.op = "open_reader"
    /\ last.result.kind = "Ok"
    /\ ~last.self.header.has_header_row
    /\ last.self.header.num_preamble_rows >= 1
    /\ last.result.reader.rdr.pos = last.self.header.num_preamble_rows

\* C2: the configuration produced from a Dialect has the dialect's delimiter,
\* its has_header_row as header flag and its flexible flag.
C2_DelimiterHeaderFlexible ==
    \A c \in CfgCalls :
        /\ CfgOf(c).delimiter = c.self.delimiter
        /\ CfgOf(c).has_headers = c.self.header.has_header_row
        /\ CfgOf(c).flexible = c.self.flexible

C2_Witness ==
    /\ last \in CfgCalls
    /\ last.self.delimiter = 59
    /\ ~last.self.header.has_header_row
    /\ last.self.flexible
    /\ CfgOf(last).delimiter = 59
    /\ CfgOf(last).flexible

\* C3: quoting is enabled exactly when quote is the enabled variant, with the
\* quote's byte, and the doubled-quote-escape setting equals the
\* doubled-quote-escapes flag carried by the quote; quoting is disabled when
\* quote is None.
C3_QuoteAndDoubleQuoteApplied ==
    \A c \in CfgCalls :
        /\ CfgOf(c).quoting <=> (c.self.quote.tag = "Some")
        /\ c.self.quote.tag = "Some" =>
              /\ CfgOf(c).quote = c.self.quote.character
              /\ "doublequote_escapes" \in DOMAIN c.self.quote
              /\ CfgOf(c).double_quote = c.self.quote.doublequote_escapes
        /\ c.self.quote.tag = "None" => ~CfgOf(c).quoting

\* C4: every Dialect carries an escape and a comment setting, and the
\* configuration produced from it applies them.
C4_EscapeCommentApplied ==
    \A c \in CfgCalls :
        /\ "escape" \in DOMAIN c.self
        /\ "comment" \in DOMAIN c.self
        /\ CfgOf(c).escape = EscapeIntoOption(c.self.escape)
        /\ CfgOf(c).comment = CommentIntoOption(c.self.comment)

\* C7: when the preamble skip fails, open_reader returns that error and
\* builds neither a configuration nor a Reader; a Reader is returned only
\* when the skip succeeded.
C7_SnipErrorPropagates ==
    \A c \in OpenReaderCalls :
        LET snip == SnipPreamble(c.input, c.self.header.num_preamble_rows, c.ioOk)
        IN  /\ snip.kind = "Err" =>
                  /\ c.result = [kind |-> "Err", error |-> snip.error]
                  /\ ~Made(c.trace, "into")
                  /\ ~Made(c.trace, "from_reader")
            /\ c.result.kind = "Ok" => snip.kind = "Ok"
            /\ c.result.kind \in {"Ok", "Err"}

C7_Witness ==
    /\ last.op = "open_reader"
    /\ ~last.ioOk
    /\ last.result = [kind |-> "Err", error |-> "Io"]
    /\ prev.op = "open_reader"
    /\ prev.result.kind = "Ok"

\* C8: open_path on a path that cannot be opened returns the opening error
\* without a preamble skip or a Reader; otherwise its outcome is that of
\* open_reader on the opened file with the same Dialect.
C8_OpenPathDelegates ==
    \A c \in OpenPathCalls :
        LET f == FileOpen(c.input)
        IN  /\ Len(c.trace) >= 1 /\ c.trace[1].call = "File::open"
            /\ f.kind = "Err" =>
                  /\ c.result = [kind |-> "Err", error |-> f.error]
                  /\ CallNames(c.trace) = <<"File::open">>
            /\ f.kind = "Ok" =>
                  LET r == OpenReaderImpl(c.self, f.file, c.ioOk)
                  IN  /\ c.result = r.result
                      /\ Tail(c.trace) = r.trace
                      /\ c.result.kind = "Ok" =>
                            /\ c.result.reader.rdr.nlines = c.input.nlines
                            /\ c.result.reader.rdr.pos =
                                  Min(c.self.header.num_preamble_rows, c.input.nlines)

C8_Witness ==
    /\ prev.op = "open_path" /\ ~prev.input.exists
    /\ prev.result = [kind |-> "Err", error |-> "Open"]
    /\ last.op = "open_path" /\ last.input.exists
    /\ last.result.kind = "Ok"
    /\ last.result.reader.rdr.pos >= 1

\* the fields of a Dialect other than is_utf8 and header.num_preamble_rows
SameParsingFields(a, b) ==
    /\ a.delimiter = b.delimiter
    /\ a.header.has_header_row = b.header.has_header_row
    /\ a.quote = b.quote
    /\ a.flexible = b.flexible

\* C10: the calls leave the Dialect as it was; successive calls with it
\* produce the same configuration and skip the same number of preamble rows;
\* and any Dialect differing from it only in is_utf8 and/or num_preamble_rows
\* converts to the same configuration.
C10_DialectUnchangedConfigStable ==
    /\ \A c \in Calls : c.selfAfter = c.self /\ c.self = dialect
    /\ \A c1 \in CfgCalls, c2 \in CfgCalls : CfgOf(c1) = CfgOf(c2)
    /\ \A c1 \in Calls, c2 \in Calls :
          \A i \in 1..Len(c1.trace), j \in 1..Len(c2.trace) :
              (c1.trace[i].call = "snip_preamble" /\ c2.trace[j].call = "snip_preamble")
                  => c1.trace[i].arg = c2.trace[j].arg
    /\ \A c \in CfgCalls : \A d \in Dialects :
          SameParsingFields(c.self, d) => FromDialect(d) = CfgOf(c)

C10_Witness ==
    /\ last.op = "open_reader" /\ last.result.kind = "Ok"
    /\ prev.op = "open_path" /\ prev.result.kind = "Ok"
    /\ ~dialect.is_utf8
    /\ dialect.header.num_preamble_rows >= 1
    /\ CfgOf(last) = CfgOf(prev)

----------------------------------------------------------------------------
\* Dialect equality.

\* #[derive(PartialEq)] on Header
HeaderEq(a, b) ==
    /\ a.has_header_row = b.has_header_row
    /\ a.num_preamble_rows = b.num_preamble_rows

\* #[derive(PartialEq)] on Quote: same variant, and the same byte for Some
QuoteEq(a, b) ==
    /\ a.tag = b.tag
    /\ a.tag = "Some" => a.character = b.character

\* Faulty variant: is_utf8 is left out of the comparison.
DialectEq_IgnoreUtf8(self, other) ==
    /\ self.delimiter = other.delimiter
    /\ HeaderEq(self.header, other.header)
    /\ QuoteEq(self.quote, other.quote)
    /\ self.flexible = other.flexible

\* impl PartialEq for Dialect
DialectEq(self, other) ==
    /\ self.delimiter = other.delimiter
    /\ HeaderEq(self.header, other.header)
    /\ QuoteEq(self.quote, other.quote)
    /\ self.flexible = other.flexible
    /\ self.is_utf8 = other.is_utf8

\* dialect == other, other == dialect and dialect == dialect
Compare(other) ==
    /\ eqCall' = [op |-> "eq", self |-> dialect, other |-> other,
                  result |-> DialectEq(dialect, other),
                  reverse |-> DialectEq(other, dialect),
                  selfSelf |-> DialectEq(dialect, dialect),
                  otherOther |-> DialectEq(other, other)]
    /\ UNCHANGED <<dialect, last, prev, metadata, output>>

NextEq == \E other \in Dialects : Compare(other)

SpecEq == Init /\ [][NextEq]_vars

\* the number of the seven scalar components two Dialects differ in
Differences(a, b) ==
    Cardinality({k \in 1..7 :
        \/ k = 1 /\ a.delimiter # b.delimiter
        \/ k = 2 /\ a.header.has_header_row # b.header.has_header_row
        \/ k = 3 /\ a.header.num_preamble_rows # b.header.num_preamble_rows
        \/ k = 4 /\ a.quote.tag # b.quote.tag
        \/ k = 5 /\ a.quote.tag = "Some" /\ b.quote.tag = "Some"
                 /\ a.quote.character # b.quote.character
        \/ k = 6 /\ a.flexible # b.flexible
        \/ k = 7 /\ a.is_utf8 # b.is_utf8})

\* C5: a == b exactly when a and b agree on delimiter, has_header_row,
\* num_preamble_rows, quote variant and byte, flexible and is_utf8; one
\* difference is enough to make them unequal; == is reflexive and symmetric.
C5_EqualityStructural ==
    eqCall.op = "eq" =>
        /\ eqCall.result <=> (Differences(eqCall.self, eqCall.other) = 0)
        /\ eqCall.result <=> (eqCall.self = eqCall.other)
        /\ Differences(eqCall.self, eqCall.other) = 1 => ~eqCall.result
        /\ eqCall.reverse = eqCall.result
        /\ eqCall.selfSelf /\ eqCall.otherOther

C5_Witness ==
    /\ eqCall.op = "eq"
    /\ Differences(eqCall.self, eqCall.other) = 1
    /\ eqCall.self.is_utf8 # eqCall.other.is_utf8
    /\ ~eqCall.result /\ ~eqCall.reverse

----------------------------------------------------------------------------
\* Metadata and its Display.

\* field_type::Type and its Display: two of the types the column schema uses,
\* shown by name.
Types == {"Integer", "Text"}
TypeDisplay(ty) == ty

\* column names enumerated for Metadata.fields
Names == {"id", "name"}

SeqsUpTo(S, n) == UNION {[1..k -> S] : k \in 0..n}

\* struct Metadata { dialect, avg_record_len, num_fields, fields, types }:
\* every field is public and each is given independently.
Metadatas ==
    [dialect : Dialects, avg_record_len : {0, 57}, num_fields : 0..MaxCols,
     fields : SeqsUpTo(Names, MaxCols), types : SeqsUpTo(Types, MaxCols)]

\* char::from(u8), for the bytes enumerated
CharFrom(b) ==
    CASE b = 44 -> ","
      [] b = 59 -> ";"
      [] b = 34 -> "\""
      [] b = 39 -> "'"

BoolDisplay(b) == IF b THEN "true" ELSE "false"

\* impl fmt::Display for Dialect: the lines it writes
DialectDisplay(d) ==
    << "Dialect:",
       "\tDelimiter: " \o CharFrom(d.delimiter),
       "\tHas header row?: " \o BoolDisplay(d.header.has_header_row),
       "\tNumber of preamble rows: " \o ToString(d.header.num_preamble_rows),
       "\tQuote character: " \o
           (IF d.quote.tag = "Some" THEN CharFrom(d.quote.character) ELSE "none"),
       "\tFlexible: " \o BoolDisplay(d.flexible),
       "\tIs utf-8 encoded?: " \o BoolDisplay(d.is_utf8) >>

\* fields.get(i).unwrap_or(&String::new()), i counted from 0
FieldName(m, i) == IF i < Len(m.fields) THEN m.fields[i + 1] ELSE ""

\* Faulty variant: the table has one row per entry of fields.
FieldRows_PerField(m) ==
    [k \in 1..Len(m.fields) |->
        [cells |-> <<"", ToString(k - 1) \o ":",
                     IF k <= Len(m.types) THEN TypeDisplay(m.types[k]) ELSE "">>,
         rest  |-> FieldName(m, k - 1)]]

\* The rows written to the TabWriter, "\t{i}:\t{ty}\t{name}" for each
\* (i, ty) of types.iter().enumerate(): the tab-terminated cells and the text
\* after the last tab.
FieldRows(m) ==
    [k \in 1..Len(m.types) |->
        [cells |-> <<"", ToString(k - 1) \o ":", TypeDisplay(m.types[k])>>,
         rest  |-> FieldName(m, k - 1)]]

RECURSIVE Spaces(_)
Spaces(n) == IF n <= 0 THEN "" ELSE " " \o Spaces(n - 1)

RECURSIVE MaxCellLen(_, _, _)
MaxCellLen(rows, col, k) ==
    IF k = 0 THEN 0 ELSE Max(Len(rows[k].cells[col]), MaxCellLen(rows, col, k - 1))

\* TabWriter::new defaults: minimum cell width and padding between cells
TabMinWidth == 2
TabPadding == 2

\* TabWriter (left alignment): each tab-terminated cell is padded with spaces
\* to its column's width, the widest cell of the column but at least the
\* minimum width, and followed by the padding; the text after the last tab is
\* written as it is.
TabWriterFlush(rows) ==
    LET width(col) == Max(TabMinWidth, MaxCellLen(rows, col, Len(rows)))
        pad(text, col) == text \o Spaces(width(col) - Len(text) + TabPadding)
    IN  [k \in 1..Len(rows) |->
            pad(rows[k].cells[1], 1) \o pad(rows[k].cells[2], 2)
                \o pad(rows[k].cells[3], 3) \o rows[k].rest]

\* impl fmt::Display for Metadata, written to a String: the lines it writes.
MetadataDisplay(m) ==
    [kind |-> "Ok",
     lines |-> <<"Metadata", "========">>
               \o DialectDisplay(m.dialect) \o <<"">>
               \o << "Average record length (bytes): " \o ToString(m.avg_record_len),
                     "Number of fields: " \o ToString(m.num_fields),
                     "Fields:" >>
               \o TabWriterFlush(FieldRows(m)) \o <<"">>]

\* metadata.to_string()
Display ==
    /\ metadata # NoMetadata
    /\ output' = MetadataDisplay(metadata)
    /\ UNCHANGED <<dialect, last, prev, eqCall, metadata>>

InitDisplay ==
    /\ metadata \in Metadatas
    /\ dialect = metadata.dialect
    /\ last = NoCall
    /\ prev = NoCall
    /\ eqCall = NoEq
    /\ output = NoOutput

NextDisplay == Display

SpecDisplay == InitDisplay /\ [][NextDisplay]_vars

----------------------------------------------------------------------------
\* Properties of Display.

Displayed == output # NoOutput

\* index of the first line equal to text, 0 when there is none
LineIndex(lines, text) ==
    IF \E i \in 1..Len(lines) : lines[i] = text
    THEN CHOOSE i \in 1..Len(lines) :
            lines[i] = text /\ \A j \in 1..(i - 1) : lines[j] # text
    ELSE 0

\* the lines between "Fields:" and the closing empty line
TableOf(lines) ==
    LET f == LineIndex(lines, "Fields:")
    IN  SubSeq(lines, f + 1, Len(lines) - 1)

\* the words of a line: its maximal runs of characters other than space
RECURSIVE WordsFrom(_, _, _, _)
WordsFrom(line, i, cur, acc) ==
    IF i > Len(line)
    THEN IF cur = "" THEN acc ELSE Append(acc, cur)
    ELSE LET ch == SubSeq(line, i, i)
         IN  IF ch = " "
             THEN WordsFrom(line, i + 1, "", IF cur = "" THEN acc ELSE Append(acc, cur))
             ELSE WordsFrom(line, i + 1, cur \o ch, acc)
Words(line) == WordsFrom(line, 1, "", <<>>)

\* C9: Display succeeds and writes, after the dialect summary, one table row
\* per entry of types, with the indices 0, 1, 2, ... in order, each row
\* showing the index, the type and the name; a column without an entry in
\* fields has an empty name, and entries of fields beyond len(types) are not
\* shown.
C9_DisplayTable ==
    Displayed =>
        LET m == metadata
            lines == output.lines
            table == TableOf(lines)
        IN  /\ output.kind = "Ok"
            /\ LineIndex(lines, "Dialect:") > 0
            /\ LineIndex(lines, "Dialect:") < LineIndex(lines, "Fields:")
            /\ SubSeq(lines, LineIndex(lines, "Dialect:"),
                      LineIndex(lines, "Dialect:") + 6) = DialectDisplay(m.dialect)
            /\ lines[Len(lines)] = ""
            /\ Len(table) = Len(m.types)
            /\ \A k \in 1..Len(table) :
                  Words(table[k]) =
                      <<ToString(k - 1) \o ":", TypeDisplay(m.types[k])>>
                      \o (IF k <= Len(m.fields) THEN <<m.fields[k]>> ELSE <<>>)

C9_Witness ==
    /\ Displayed
    /\ output.kind = "Ok"
    /\ Len(metadata.types) = 2
    /\ Len(metadata.fields) = 1
    /\ Words(TableOf(output.lines)[1]) = <<"0:", "Text", "name">>
    /\ Words(TableOf(output.lines)[2]) = <<"1:", "Integer">>

----------------------------------------------------------------------------
\* Production of a Metadata by a sniff call (Metadata Assembler).

\* total byte lengths and numbers of sampled structural rows enumerated
SampleBytes == {0, 7}
SampleRows == {0, 2}

\* What the assembler is given for one column: its inferred type and the
\* header row's value in it.
Columns == [type : Types, label : Names]

\* positional placeholder name of column i, i counted from 0
Placeholder(i) == "field " \o ToString(i)

\* average record length: total byte length of the structural rows divided
\* by their number, rounded down; 0 without rows
AvgRecordLen(totalBytes, nrows) ==
    IF nrows = 0 THEN 0 ELSE totalBytes \div nrows

\* Faulty variant: without a header row no names are synthesized.
MetadataAssemble_NoPlaceholders(d, cols, totalBytes, nrows) ==
    [dialect |-> d,
     avg_record_len |-> AvgRecordLen(totalBytes, nrows),
     num_fields |-> Len(cols),
     fields |-> IF d.header.has_header_row
                THEN [i \in 1..Len(cols) |-> cols[i].label]
                ELSE <<>>,
     types |-> [i \in 1..Len(cols) |-> cols[i].type]]

\* The Metadata of one sniff call: the dialect, the column count, one type
\* per column, and one name per column: the header row's value when the
\* dialect has a header row, else a positional placeholder.
MetadataAssemble(d, cols, totalBytes, nrows) ==
    [dialect |-> d,
     avg_record_len |-> AvgRecordLen(totalBytes, nrows),
     num_fields |-> Len(cols),
     fields |-> [i \in 1..Len(cols) |->
                    IF d.header.has_header_row
                    THEN cols[i].label ELSE Placeholder(i - 1)],
     types |-> [i \in 1..Len(cols) |-> cols[i].type]]

\* one sniff call producing a fresh Metadata
Sniff(cols, totalBytes, nrows) ==
    /\ metadata' = MetadataAssemble(dialect, cols, totalBytes, nrows)
    /\ UNCHANGED <<dialect, last, prev, eqCall, output>>

NextSniff ==
    \E cols \in SeqsUpTo(Columns, MaxCols), totalBytes \in SampleBytes,
       nrows \in SampleRows :
        Sniff(cols, totalBytes, nrows)

SpecSniff == Init /\ [][NextSniff]_vars

====
